---- MODULE Spec2Model ----
(***************************************************************************)
(* A model of async_cache.jobs.AsyncCacheJob: a stale-while-revalidate     *)
(* cache policy over a shared key-value cache (django.core.cache) and a    *)
(* task dispatcher (async_cache.tasks.refresh_cache).                      *)
(*                                                                         *)
(* Callers run get() step by step (cache read, staleness comparison,       *)
(* fetch, cache write, dispatch), so concurrent callers and the worker     *)
(* interleave at every call into a shared collaborator.                    *)
(***************************************************************************)
EXTENDS Integers, Sequences, FiniteSets

\* ------------------------------------------------------------------ bounds
\* Number of clock advances a behaviour may take.
MaxTicks == 2
\* Number of get() calls a behaviour may start.
MaxCalls == 2

\* --------------------------------------------------------- program constants
\* AsyncCacheJob.lifetime
lifetime == 600

\* ------------------------------------------------------------------ universe
Callers == {"c1", "c2"}
Workers == {"w1"}
Procs == Callers \cup Workers

\* Two job types of one module: Job keeps the default fetch_on_empty,
\* UseEmptyJob sets it to False (as NoArgsUseEmptyJob does).
Jobs == {"Job", "UseEmptyJob"}

\* AsyncCacheJob itself, which supplies no fetch.
BaseJob == "AsyncCacheJob"

\* A job type whose fetch returns None.
NoneJob == "NoneJob"

JobTypes == Jobs \cup {BaseJob, NoneJob}

\* Call arguments: args is the positional tuple, kwargs the set of
\* <<name, value>> pairs.
NoArgs == [args |-> <<>>, kwargs |-> {}]

Alan == [args |-> <<"alan">>, kwargs |-> {}]
Barry == [args |-> <<"barry">>, kwargs |-> {}]
AlanUpper == [args |-> <<"alan">>, kwargs |-> {<<"upper", "y">>}]

\* The versions the data behind fetch moves between.
Versions == {"v1", "v2"}

ArgsSet == {NoArgs, Alan, Barry, AlanUpper}

\* The arguments of the calls of the main specification.
SpecArgs == {NoArgs, Alan}

\* Python's None: what cache.get gives for an absent key, and the default
\* empty() value.
None == <<>>

\* ------------------------------------------------------- overridable hooks
\* True unless the job type overrides it, as UseEmptyJob does.
fetch_on_empty(j) == j # "UseEmptyJob"

\* '%s.%s' % (self.__module__, self.__class__.__name__)
class_path(j) == <<"tests.job_tests", j>>

\* The job type a class path names (the worker's import of the class).
JobOf(cp) == CHOOSE j \in JobTypes : class_path(j) = cp

empty(j) == None

\* Mutant of time_to_live: the lifetime is left out.
time_to_live_NoLifetime(j, a, t) == t

\* time.time() + self.lifetime, with t the clock at the call
time_to_live(j, a, t) == t + lifetime

\* Mutant of key: the arguments are left out of the key.
key_IgnoresArgs(j, a) ==
    [kind |-> "class_path", cls |-> class_path(j), args |-> <<>>, kwargs |-> {}]

\* Mutant of key: the named arguments are left out of the key.
key_DropsKwargs(j, a) ==
    IF a.args = <<>> /\ a.kwargs = {}
    THEN [kind |-> "class_path", cls |-> class_path(j), args |-> <<>>, kwargs |-> {}]
    ELSE [kind |-> "args", cls |-> <<>>, args |-> a.args, kwargs |-> {}]

\* The cache key.  kind tells the three shapes of the code apart: the class
\* path string, the positional tuple itself, and the "%s-%s" formatted string
\* of (args, kwargs).  Only the first carries the job's identity.
key(j, a) ==
    IF a.args = <<>> /\ a.kwargs = {}
    THEN [kind |-> "class_path", cls |-> class_path(j), args |-> <<>>, kwargs |-> {}]
    ELSE IF a.kwargs = {}
    THEN [kind |-> "args", cls |-> <<>>, args |-> a.args, kwargs |-> {}]
    ELSE [kind |-> "format", cls |-> <<>>, args |-> a.args, kwargs |-> a.kwargs]

\* The data a successful fetch of job j returns for arguments a when the
\* underlying data is at version v.
fetch(j, a, v) == IF j = NoneJob THEN None ELSE <<j, a, v>>

\* Mutant of HasFetch: the fetch of AsyncCacheJob is taken to return.
HasFetch_Always(j) == TRUE

\* The job type supplies a fetch; AsyncCacheJob's own raises
\* NotImplementedError.
HasFetch(j) == j # BaseJob

\* Mutant of IsStale: the comparison is not strict.
IsStale_NotStrict(entry, t) == entry[1] <= t

\* result[0] < time.time()
IsStale(entry, t) == entry[1] < t

\* Mutant of HitReturn: the whole cached tuple is returned.
HitReturn_WholeEntry(entry) == entry

\* return result[1]
HitReturn(entry) == entry[2]

\* Every value a successful fetch of job j can return for arguments a.
FetchResults(j, a) == { fetch(j, a, v) : v \in Versions }

Keys == { key(j, a) : j \in JobTypes, a \in ArgsSet }
Tasks == [class_path : { class_path(j) : j \in JobTypes }, args : ArgsSet]

\* ------------------------------------------------------------------- state
VARIABLES
    now,      \* time.time()
    dataVer,  \* version of the data that fetch reads
    cache,    \* django cache: key -> None or <<expiresAt, payload>>
    pending,  \* dispatcher: task -> number of queued copies
    calls,    \* get() calls started so far
    pc,       \* each process's position
    job,      \* self of the running call
    cargs,    \* *args, **kwargs of the running call
    result,   \* get's local `result` (what cache.get returned)
    fetched,  \* refresh's local `result` (what fetch returned)
    ret,      \* the value the call returned
    outcome,  \* "none", "returned", "FetchFailure", "DispatchFailure",
              \* "NotImplementedError"
    path,     \* the branch of get the call took
    fetches,  \* fetch invocations made by the running call
    writes,   \* cache.set calls made by the running call
    enq       \* tasks enqueued by the running call

vars == <<now, dataVer, cache, pending, calls, pc, job, cargs, result, fetched,
          ret, outcome, path, fetches, writes, enq>>

env == <<now, dataVer>>
locals == <<job, cargs, result, fetched, ret, outcome, path>>
counts == <<fetches, writes, enq>>

Init ==
    /\ now = 0
    /\ dataVer = "v1"
    /\ cache = [k \in Keys |-> None]
    /\ pending = [t \in Tasks |-> 0]
    /\ calls = 0
    /\ pc = [p \in Procs |-> "idle"]
    /\ job = [p \in Procs |-> "Job"]
    /\ cargs = [p \in Procs |-> NoArgs]
    /\ result = [p \in Procs |-> None]
    /\ fetched = [p \in Procs |-> None]
    /\ ret = [p \in Procs |-> None]
    /\ outcome = [p \in Procs |-> "none"]
    /\ path = [p \in Procs |-> "none"]
    /\ fetches = [p \in Procs |-> 0]
    /\ writes = [p \in Procs |-> 0]
    /\ enq = [p \in Procs |-> 0]

\* ------------------------------------------------------------- environment
\* The clock advances, by a second or by a whole lifetime.
Tick ==
    /\ (now \div lifetime) + (now % lifetime) < MaxTicks
    /\ \E d \in {1, lifetime} : now' = now + d
    /\ UNCHANGED <<dataVer, cache, pending, calls, pc, locals, counts>>

\* The data behind fetch changes.
DataChange ==
    /\ \E v \in Versions \ {dataVer} : dataVer' = v
    /\ UNCHANGED <<now, cache, pending, calls, pc, locals, counts>>

\* ---------------------------------------------------------------------- get
\* Mutant of MissBranch: fetch_on_empty is not consulted.
MissBranch_AlwaysSync(j) == "sync_miss"

\* The branch get takes on a miss.
MissBranch(j) == IF fetch_on_empty(j) THEN "sync_miss" ELSE "async_miss"

\* Mutant of HitBranch: every hit is taken as stale.
HitBranch_AlwaysStale(entry, t) == "stale"

\* The branch get takes on an entry it found.
HitBranch(entry, t) == IF IsStale(entry, t) THEN "stale" ELSE "fresh"

\* Mutant of Branch: an entry whose payload is None is taken as a miss.
Branch_MissOnNonePayload(j, entry, t) ==
    IF entry = None THEN MissBranch(j)
    ELSE IF entry[2] = None THEN MissBranch(j)
    ELSE HitBranch(entry, t)

\* The branch get takes: lines 26, 31 and 42.
Branch(j, entry, t) == IF entry = None THEN MissBranch(j) ELSE HitBranch(entry, t)

\* Mutant of After: a fresh hit refreshes inline.
After_RefreshOnFresh(branch) ==
    CASE branch = "sync_miss" -> "fetch"
      [] branch = "async_miss" -> "dispatch"
      [] branch = "stale" -> "dispatch"
      [] branch = "fresh" -> "fetch"

\* Mutant of After: a stale hit refreshes inline instead of dispatching.
After_RefreshOnStale(branch) ==
    CASE branch = "sync_miss" -> "fetch"
      [] branch = "async_miss" -> "dispatch"
      [] branch = "stale" -> "fetch"
      [] branch = "fresh" -> "done"

\* Mutant of After: an asynchronous miss stores a placeholder at once.
After_StoreOnAsyncMiss(branch) ==
    CASE branch = "sync_miss" -> "fetch"
      [] branch = "async_miss" -> "set"
      [] branch = "stale" -> "dispatch"
      [] branch = "fresh" -> "done"

\* Where a branch of get goes next.
After(branch) ==
    CASE branch = "sync_miss" -> "fetch"
      [] branch = "async_miss" -> "dispatch"
      [] branch = "stale" -> "dispatch"
      [] branch = "fresh" -> "done"

\* get, lines 24-52 up to the first call that acts on a collaborator: derive
\* the key, read the cache, compare the entry's expiry with the clock.  A fresh
\* entry is returned at once.  (The clock read of line 42 is taken with the
\* cache read of line 25: a clock advance between the two is the same advance
\* before both.)
GetBegin(p, j, a) ==
    /\ pc[p] = "idle"
    /\ calls < MaxCalls
    /\ calls' = calls + 1
    /\ job' = [job EXCEPT ![p] = j]
    /\ cargs' = [cargs EXCEPT ![p] = a]
    /\ LET entry == cache[key(j, a)]
           branch == Branch(j, entry, now)
       IN /\ result' = [result EXCEPT ![p] = entry]
          /\ path' = [path EXCEPT ![p] = branch]
          /\ pc' = [pc EXCEPT ![p] = After(branch)]
          /\ IF branch = "fresh"
             THEN /\ ret' = [ret EXCEPT ![p] = HitReturn(entry)]
                  /\ outcome' = [outcome EXCEPT ![p] = "returned"]
             ELSE UNCHANGED <<ret, outcome>>
    /\ UNCHANGED <<env, cache, pending, fetched, counts>>

\* The value get returns after a successful dispatch: empty() on a miss, the
\* cached payload on a stale hit.
DispatchReturn(p) ==
    IF result[p] = None THEN empty(job[p]) ELSE HitReturn(result[p])

\* Mutant of RefreshTask: the call's arguments are not passed on.
RefreshTask_NoArgs(p) == [class_path |-> class_path(job[p]), args |-> NoArgs]

\* Mutant of RefreshTask: the named arguments are not passed on.
RefreshTask_DropsKwargs(p) ==
    [class_path |-> class_path(job[p]),
     args |-> [args |-> cargs[p].args, kwargs |-> {}]]

\* The task async_refresh hands to the dispatcher:
\* tasks.refresh_cache.delay(self.class_path, *args, **kwargs)
RefreshTask(p) == [class_path |-> class_path(job[p]), args |-> cargs[p]]

\* Mutant of Dispatch: a task that is already queued is not queued again.
Dispatch_Dedup(p) ==
    /\ pc[p] = "dispatch"
    /\ LET t == RefreshTask(p)
       IN /\ pending' = [pending EXCEPT ![t] = IF @ > 0 THEN @ ELSE @ + 1]
          /\ enq' = [enq EXCEPT ![p] = IF pending[t] > 0 THEN @ ELSE @ + 1]
          /\ ret' = [ret EXCEPT ![p] = DispatchReturn(p)]
          /\ outcome' = [outcome EXCEPT ![p] = "returned"]
    /\ pc' = [pc EXCEPT ![p] = "done"]
    /\ UNCHANGED <<env, cache, calls, job, cargs, result, fetched, path,
                   fetches, writes>>

\* async_refresh, line 68, and the return that follows it in get (line 40 or
\* 52).  delay() either queues the task or raises; nothing catches the
\* exception, so it leaves get.
Dispatch(p) ==
    /\ pc[p] = "dispatch"
    /\ LET t == RefreshTask(p)
       IN \/ /\ pending' = [pending EXCEPT ![t] = @ + 1]
             /\ enq' = [enq EXCEPT ![p] = @ + 1]
             /\ ret' = [ret EXCEPT ![p] = DispatchReturn(p)]
             /\ outcome' = [outcome EXCEPT ![p] = "returned"]
          \/ /\ outcome' = [outcome EXCEPT ![p] = "DispatchFailure"]
             /\ UNCHANGED <<pending, enq, ret>>
    /\ pc' = [pc EXCEPT ![p] = "done"]
    /\ UNCHANGED <<env, cache, calls, job, cargs, result, fetched, path,
                   fetches, writes>>

\* ------------------------------------------------------------------ refresh
\* Mutant of DoFetch: a failure of fetch is noted and refresh goes on to
\* cache.set.
DoFetch_GoesOn(p, j, a) ==
    /\ fetches' = [fetches EXCEPT ![p] = @ + 1]
    /\ \/ /\ HasFetch(j)
          /\ fetched' = [fetched EXCEPT ![p] = fetch(j, a, dataVer)]
          /\ pc' = [pc EXCEPT ![p] = "set"]
          /\ UNCHANGED outcome
       \/ /\ outcome' = [outcome EXCEPT ![p] = "FetchFailure"]
          /\ pc' = [pc EXCEPT ![p] = "set"]
          /\ UNCHANGED fetched

\* refresh, line 58, for process p running job j on arguments a: fetch
\* returns the data or raises; an exception leaves refresh before cache.set.
\* The fetch of a job type that supplies none can only raise.
DoFetch(p, j, a) ==
    /\ fetches' = [fetches EXCEPT ![p] = @ + 1]
    /\ \/ /\ HasFetch(j)
          /\ fetched' = [fetched EXCEPT ![p] = fetch(j, a, dataVer)]
          /\ pc' = [pc EXCEPT ![p] = "set"]
          /\ UNCHANGED outcome
       \/ /\ outcome' = [outcome EXCEPT ![p] =
                          IF HasFetch(j) THEN "FetchFailure" ELSE "NotImplementedError"]
          /\ pc' = [pc EXCEPT ![p] = "done"]
          /\ UNCHANGED fetched

\* The inline refresh of a synchronous miss (line 34) reaches fetch.
Fetch(p) ==
    /\ pc[p] = "fetch"
    /\ DoFetch(p, job[p], cargs[p])
    /\ UNCHANGED <<env, cache, pending, calls, job, cargs, result, ret, path,
                   writes, enq>>

\* refresh called by the application itself, not through get: it starts at
\* fetch (line 58).
DirectRefresh(p, j, a) ==
    /\ pc[p] = "idle"
    /\ calls < MaxCalls
    /\ calls' = calls + 1
    /\ job' = [job EXCEPT ![p] = j]
    /\ cargs' = [cargs EXCEPT ![p] = a]
    /\ path' = [path EXCEPT ![p] = "refresh"]
    /\ DoFetch(p, j, a)
    /\ UNCHANGED <<env, cache, pending, result, ret, writes, enq>>

\* Mutant of RefreshEntry: the expiry is the lifetime, not a time.
RefreshEntry_FixedExpiry(p) == <<lifetime, fetched[p]>>

\* The entry refresh stores: (self.time_to_live(...), result)
RefreshEntry(p) == <<time_to_live(job[p], cargs[p], now), fetched[p]>>

\* Mutant of CacheSet: the store is an add, which leaves an existing entry.
CacheSet_KeepsExisting(p) ==
    /\ pc[p] = "set"
    /\ cache' = [cache EXCEPT ![key(job[p], cargs[p])] =
                    IF @ = None THEN RefreshEntry(p) ELSE @]
    /\ writes' = [writes EXCEPT ![p] = @ + 1]
    /\ ret' = [ret EXCEPT ![p] = fetched[p]]
    /\ outcome' = [outcome EXCEPT ![p] = "returned"]
    /\ pc' = [pc EXCEPT ![p] = "done"]
    /\ UNCHANGED <<env, pending, calls, job, cargs, result, fetched, path,
                   fetches, enq>>

\* refresh, lines 59-62: store the entry under the key and return the result.
\* (The timeout cache.set is given, MEMCACHE_MAX_EXPIRATION = 30 days, lies
\* beyond every clock value reached here, so the store drops no entry.)
CacheSet(p) ==
    /\ pc[p] = "set"
    /\ cache' = [cache EXCEPT ![key(job[p], cargs[p])] = RefreshEntry(p)]
    /\ writes' = [writes EXCEPT ![p] = @ + 1]
    /\ ret' = [ret EXCEPT ![p] = fetched[p]]
    /\ outcome' = [outcome EXCEPT ![p] = "returned"]
    /\ pc' = [pc EXCEPT ![p] = "done"]
    /\ UNCHANGED <<env, pending, calls, job, cargs, result, fetched, path,
                   fetches, enq>>

\* The call is over: its frame is dropped.
Finish(p) ==
    /\ pc[p] = "done"
    /\ pc' = [pc EXCEPT ![p] = "idle"]
    /\ job' = [job EXCEPT ![p] = "Job"]
    /\ cargs' = [cargs EXCEPT ![p] = NoArgs]
    /\ result' = [result EXCEPT ![p] = None]
    /\ fetched' = [fetched EXCEPT ![p] = None]
    /\ ret' = [ret EXCEPT ![p] = None]
    /\ outcome' = [outcome EXCEPT ![p] = "none"]
    /\ path' = [path EXCEPT ![p] = "none"]
    /\ fetches' = [fetches EXCEPT ![p] = 0]
    /\ writes' = [writes EXCEPT ![p] = 0]
    /\ enq' = [enq EXCEPT ![p] = 0]
    /\ UNCHANGED <<env, cache, pending, calls>>

\* ------------------------------------------------------------------- worker
\* tasks.refresh_cache: a worker takes a queued task, instantiates the job
\* type its class path names and calls refresh with the task's arguments,
\* which reaches fetch.
RunTask(w, t) ==
    /\ pc[w] = "idle"
    /\ pending[t] > 0
    /\ pending' = [pending EXCEPT ![t] = @ - 1]
    /\ job' = [job EXCEPT ![w] = JobOf(t.class_path)]
    /\ cargs' = [cargs EXCEPT ![w] = t.args]
    /\ path' = [path EXCEPT ![w] = "task"]
    /\ DoFetch(w, JobOf(t.class_path), t.args)
    /\ UNCHANGED <<env, cache, calls, result, ret, writes, enq>>

\* At-least-once delivery: a worker is handed a task that stays queued, and
\* so will be delivered again.
Redeliver(w, t) ==
    /\ pc[w] = "idle"
    /\ pending[t] > 0
    /\ job' = [job EXCEPT ![w] = JobOf(t.class_path)]
    /\ cargs' = [cargs EXCEPT ![w] = t.args]
    /\ path' = [path EXCEPT ![w] = "task"]
    /\ DoFetch(w, JobOf(t.class_path), t.args)
    /\ UNCHANGED <<env, cache, pending, calls, result, ret, writes, enq>>

\* The steps of a call under way, of the worker and of the environment.
Steps ==
    \/ Tick
    \/ DataChange
    \/ \E p \in Callers : Dispatch(p)
    \/ \E p \in Callers : Fetch(p)
    \/ \E p \in Procs : CacheSet(p)
    \/ \E p \in Procs : Finish(p)
    \/ \E w \in Workers, t \in Tasks : RunTask(w, t)

\* A process of P starts a get of a job type of J on arguments of A.
Begin(P, J, A) == \E p \in P, j \in J, a \in A : GetBegin(p, j, a)

\* One caller and the worker, both job types, with and without a positional
\* argument.
Next ==
    \/ Begin({"c1"}, Jobs, SpecArgs)
    \/ Steps

Spec == Init /\ [][Next]_vars

\* One caller and the worker, one job type, every shape of arguments.
NextOneJob ==
    \/ Begin({"c1"}, {"Job"}, ArgsSet)
    \/ Steps

SpecOneJob == Init /\ [][NextOneJob]_vars

\* Two callers and the worker, both job types on the one no-argument key
\* each: gets of one key overlap.
NextConcurrent ==
    \/ Begin(Callers, Jobs, {NoArgs})
    \/ Steps

SpecConcurrent == Init /\ [][NextConcurrent]_vars

\* A worker takes a queued task and the fetch of its refresh succeeds.
RunTaskOk(w, t) == RunTask(w, t) /\ pc'[w] = "set"

\* One caller of one job type on its no-argument key, and a worker whose
\* fetches succeed.
NextLive ==
    \/ Begin({"c1"}, {"Job"}, {NoArgs})
    \/ Tick
    \/ DataChange
    \/ \E p \in Callers : Dispatch(p)
    \/ \E p \in Callers : Fetch(p)
    \/ \E p \in Procs : CacheSet(p)
    \/ \E p \in Procs : Finish(p)
    \/ \E w \in Workers, t \in Tasks : RunTaskOk(w, t)

\* The worker keeps working: it takes a task that stays queued, stores what
\* it fetched, and returns to the queue.
SpecLive ==
    /\ Init
    /\ [][NextLive]_vars
    /\ WF_vars(\E w \in Workers, t \in Tasks : RunTaskOk(w, t))
    /\ WF_vars(\E w \in Workers : CacheSet(w))
    /\ WF_vars(\E w \in Workers : Finish(w))

\* One caller and the worker; AsyncCacheJob, which has no fetch, beside a job
\* type that has one, each on its no-argument key; the caller also calls
\* refresh of AsyncCacheJob directly.
NextNoFetch ==
    \/ Begin({"c1"}, {BaseJob, "UseEmptyJob"}, {NoArgs})
    \/ DirectRefresh("c1", BaseJob, NoArgs)
    \/ Steps

SpecNoFetch == Init /\ [][NextNoFetch]_vars

\* One caller and the worker, the job type whose fetch returns None.
NextNone ==
    \/ Begin({"c1"}, {NoneJob}, {NoArgs})
    \/ Steps

SpecNone == Init /\ [][NextNone]_vars

\* The one job type and the arguments of the specification that follows.
TheJob == "Job"
KwArgs == {Alan, AlanUpper}

\* Two callers and the worker on one job type, with and without a named
\* argument: gets, their inline refreshes, queued tasks run once or more
\* than once, in any order.
NextRedeliver ==
    \/ Begin(Callers, {TheJob}, KwArgs)
    \/ \E w \in Workers, t \in Tasks : Redeliver(w, t)
    \/ Steps

SpecRedeliver == Init /\ [][NextRedeliver]_vars

\* ------------------------------------------------------------------ claims
\* The task a get of job j on arguments a hands to the dispatcher.
TaskOf(j, a) == [class_path |-> class_path(j), args |-> a]

\* Process p takes the first step of a get of job j on arguments a.
Begins(p, j, a) ==
    pc[p] = "idle" /\ pc'[p] # "idle" /\ job'[p] = j /\ cargs'[p] = a

\* Caller p leaves refresh with a stored entry / leaves async_refresh.
Stores(p) == pc[p] = "set" /\ pc'[p] = "done"
Dispatches(p) == pc[p] = "dispatch" /\ pc'[p] = "done"

\* C1: a get of a job with fetch_on_empty on a key without entry goes to an
\* inline refresh, and when that refresh stores, the call has invoked fetch
\* exactly once, the entry under key(args) is (time of the write + lifetime,
\* fetch result), no task was enqueued, and the call returns the fetch result.
C1_SyncMissFills ==
    [][\A p \in Callers, j \in Jobs, a \in ArgsSet :
         /\ (Begins(p, j, a) /\ fetch_on_empty(j) /\ cache[key(j, a)] = None)
               => (pc'[p] = "fetch" /\ cache' = cache /\ pending' = pending)
         /\ (Stores(p) /\ job[p] = j /\ cargs[p] = a /\ result[p] = None)
               => /\ fetches'[p] = 1
                  /\ fetched[p] \in FetchResults(j, a)
                  /\ cache' = [cache EXCEPT ![key(j, a)] = <<now + lifetime, fetched[p]>>]
                  /\ enq'[p] = 0
                  /\ pending' = pending
                  /\ outcome'[p] = "returned"
                  /\ ret'[p] = fetched[p]]_vars

\* C1 witness: a synchronous miss has just stored and returned its fetch result.
C1_Witness ==
    /\ pc["c1"] = "done"
    /\ path["c1"] = "sync_miss"
    /\ outcome["c1"] = "returned"
    /\ fetches["c1"] = 1
    /\ cache[key(job["c1"], cargs["c1"])] = <<now + lifetime, ret["c1"]>>

\* C2: every get made while the entry under its key is fresh returns in one
\* step, without invoking fetch, the payload of that entry; the one fetch
\* behind all these calls is the one of the refresh that stored the entry, and
\* a call that stored it inline returns the payload it stored.
C2_OneFetchWhileFresh ==
    [][\A j \in Jobs, a \in ArgsSet :
         /\ \A p \in Callers :
              (Begins(p, j, a) /\ cache[key(j, a)] # None /\ cache[key(j, a)][1] >= now)
                 => /\ pc'[p] = "done"
                    /\ outcome'[p] = "returned"
                    /\ ret'[p] = cache[key(j, a)][2]
                    /\ fetches'[p] = 0
                    /\ cache' = cache
         /\ \A p \in Procs :
              (Stores(p) /\ job[p] = j /\ cargs[p] = a)
                 => /\ fetches'[p] = 1
                    /\ cache'[key(j, a)][2] = fetched[p]
                    /\ p \in Callers => ret'[p] = cache'[key(j, a)][2]]_vars

\* C2 witness: the second call is a fresh hit on the entry the first one caused.
C2_Witness ==
    /\ pc["c1"] = "done"
    /\ calls = 2
    /\ path["c1"] = "fresh"
    /\ fetches["c1"] = 0
    /\ cache[key(job["c1"], cargs["c1"])] = result["c1"]
    /\ ret["c1"] = result["c1"][2]

\* C3: a get that finds an entry whose expiresAt is in the past goes to the
\* dispatch; it invokes no fetch and writes nothing, and when the dispatcher
\* takes the task it has enqueued exactly one task, carrying the job's class
\* path and the original arguments, and returns the entry's payload.
C3_StaleHit ==
    [][\A p \in Callers, j \in Jobs, a \in ArgsSet :
         /\ (Begins(p, j, a) /\ cache[key(j, a)] # None /\ cache[key(j, a)][1] < now)
               => /\ pc'[p] = "dispatch"
                  /\ result'[p] = cache[key(j, a)]
                  /\ cache' = cache
                  /\ pending' = pending
         /\ (Dispatches(p) /\ job[p] = j /\ cargs[p] = a /\ result[p] # None)
               => /\ cache' = cache
                  /\ fetches'[p] = 0
                  /\ writes'[p] = 0
                  /\ outcome'[p] = "returned"
                        => /\ ret'[p] = result[p][2]
                           /\ enq'[p] = 1
                           /\ pending' = [pending EXCEPT ![TaskOf(j, a)] = @ + 1]]_vars

\* C3 witness: a stale hit on a positional argument has returned the stale
\* payload and left its task in the dispatcher.
C3_Witness ==
    /\ pc["c1"] = "done"
    /\ cargs["c1"] = Alan
    /\ result["c1"] # None
    /\ result["c1"][1] < now
    /\ enq["c1"] = 1
    /\ outcome["c1"] = "returned"
    /\ ret["c1"] = result["c1"][2]
    /\ pending[TaskOf(job["c1"], Alan)] = 1

\* C4: a get of a job without fetch_on_empty on a key without entry goes to
\* the dispatch; it invokes no fetch and leaves the cache as it is, and when
\* the dispatcher takes the task it has enqueued exactly one task and returns
\* empty(), which is no fetch result.
C4_AsyncMiss ==
    [][\A p \in Callers, j \in Jobs, a \in ArgsSet :
         /\ (Begins(p, j, a) /\ ~fetch_on_empty(j) /\ cache[key(j, a)] = None)
               => /\ pc'[p] = "dispatch"
                  /\ cache' = cache
                  /\ pending' = pending
         /\ (Dispatches(p) /\ job[p] = j /\ cargs[p] = a /\ result[p] = None)
               => /\ cache' = cache
                  /\ fetches'[p] = 0
                  /\ writes'[p] = 0
                  /\ outcome'[p] = "returned"
                        => /\ ret'[p] = empty(j)
                           /\ ret'[p] \notin FetchResults(j, a)
                           /\ enq'[p] = 1
                           /\ pending' = [pending EXCEPT ![TaskOf(j, a)] = @ + 1]]_vars

\* C4 witness: an asynchronous miss has returned empty() with its task queued
\* and the key still without entry.
C4_Witness ==
    /\ pc["c1"] = "done"
    /\ ~fetch_on_empty(job["c1"])
    /\ result["c1"] = None
    /\ outcome["c1"] = "returned"
    /\ ret["c1"] = None
    /\ enq["c1"] = 1
    /\ pending[TaskOf(job["c1"], cargs["c1"])] = 1
    /\ cache[key(job["c1"], cargs["c1"])] = None

\* C5: the refresh a worker runs for a task stores the fetch result under the
\* key of the task's job and arguments; a get of a job without fetch_on_empty
\* that finds such an entry never takes the miss branch, and the value it
\* returns is the entry's payload, a fetch result, and not empty().
C5_ValueAfterAsyncRefresh ==
    [][\A j \in Jobs, a \in ArgsSet :
         /\ \A w \in Workers :
              (Stores(w) /\ job[w] = j /\ cargs[w] = a)
                 => /\ fetched[w] \in FetchResults(j, a)
                    /\ cache' = [cache EXCEPT ![key(j, a)] = <<now + lifetime, fetched[w]>>]
         /\ \A p \in Callers :
              LET entry == cache[key(j, a)] IN
              (Begins(p, j, a) /\ ~fetch_on_empty(j) /\ entry # None
                 /\ entry[2] \in FetchResults(j, a))
                 => /\ result'[p] = entry
                    /\ pc'[p] \in {"done", "dispatch"}
                    /\ pc'[p] = "done"
                          => (outcome'[p] = "returned" /\ ret'[p] = entry[2]
                              /\ ret'[p] # empty(j))
         /\ \A p \in Callers :
              (Dispatches(p) /\ job[p] = j /\ cargs[p] = a /\ ~fetch_on_empty(j)
                 /\ result[p] # None /\ outcome'[p] = "returned")
                 => (ret'[p] = result[p][2] /\ ret'[p] # empty(j))]_vars

\* C5 witness: the first get missed, the worker has run its task, and the
\* second get has returned the value the task fetched.
C5_Witness ==
    /\ pc["c1"] = "done"
    /\ calls = 2
    /\ ~fetch_on_empty(job["c1"])
    /\ outcome["c1"] = "returned"
    /\ ret["c1"] \in FetchResults(job["c1"], cargs["c1"])
    /\ pending[TaskOf(job["c1"], cargs["c1"])] = 0
    /\ pc["w1"] = "idle"

\* C6 (as claimed): a get on the stale-hit or the async-miss branch always
\* returns, the stale payload or empty(), whatever the dispatcher does.
C6_DispatchFailureNeverPropagates ==
    \A p \in Callers :
        (pc[p] = "done" /\ path[p] \in {"stale", "async_miss"})
           => /\ outcome[p] = "returned"
              /\ ret[p] = IF result[p] = None THEN empty(job[p]) ELSE result[p][2]

\* C7: when fetch fails the call ends there with the failure as its outcome:
\* it has written nothing, it returns no value, and the step leaves the cache
\* as it is.
C7_FetchFailureLeavesCache ==
    [][\A p \in Procs :
         /\ (outcome[p] # "FetchFailure" /\ outcome'[p] = "FetchFailure")
               => /\ pc[p] \in {"fetch", "idle"}
                  /\ pc'[p] = "done"
                  /\ cache' = cache
                  /\ writes'[p] = 0
                  /\ ret'[p] = None
         /\ outcome[p] = "FetchFailure"
               => /\ pc[p] = "done"
                  /\ writes[p] = 0
                  /\ cache' = cache \/ pc'[p] = pc[p]]_vars

\* C7 witness: a synchronous-miss get has failed in fetch and the key is
\* still without entry.
C7_Witness ==
    /\ pc["c1"] = "done"
    /\ path["c1"] = "sync_miss"
    /\ outcome["c1"] = "FetchFailure"
    /\ writes["c1"] = 0
    /\ cache[key(job["c1"], cargs["c1"])] = None

\* C8: a caller is inside fetch only on a synchronous miss; a get that went
\* to the dispatch invoked no fetch, does not end in a fetch failure, and
\* returns the cached payload or empty(); a refresh that fails in the worker
\* leaves the cache and every caller's result as they are.
C8_FetchFailureStaysInBackground ==
    [][/\ \A p \in Callers :
            /\ (pc[p] \in {"fetch", "set"} \/ outcome[p] = "FetchFailure")
                  => (result[p] = None /\ fetch_on_empty(job[p]))
            /\ Dispatches(p)
                  => /\ fetches'[p] = 0
                     /\ outcome'[p] # "FetchFailure"
                     /\ outcome'[p] = "returned"
                           => ret'[p] = IF result[p] = None THEN empty(job[p])
                                        ELSE result[p][2]
       /\ \A w \in Workers :
            (pc[w] # pc'[w])
               => /\ \A p \in Callers : ret'[p] = ret[p] /\ outcome'[p] = outcome[p]
                  /\ outcome'[w] = "FetchFailure" => cache' = cache]_vars

\* C8 witness: a stale hit has returned the stale payload, the refresh it
\* dispatched has failed in the worker, and the entry is as the get found it.
C8_Witness ==
    /\ pc["c1"] = "done"
    /\ path["c1"] = "stale"
    /\ outcome["c1"] = "returned"
    /\ ret["c1"] = result["c1"][2]
    /\ pc["w1"] = "done"
    /\ outcome["w1"] = "FetchFailure"
    /\ job["w1"] = job["c1"]
    /\ cargs["w1"] = cargs["c1"]
    /\ cache[key(job["c1"], cargs["c1"])] = result["c1"]

\* Arguments that are positional only.
Positional == { a \in ArgsSet : a.args # <<>> /\ a.kwargs = {} }

\* C9: within one job type, different positional tuples have different keys,
\* no step of a call on tuple a changes the entry of another tuple b, and a
\* value a call on a returns from the cache or from fetch is a fetch result
\* of a.
C9_PositionalKeysDistinct ==
    [][\A j \in Jobs, a \in Positional, b \in Positional :
         a # b =>
           /\ key(j, a) # key(j, b)
           /\ \A p \in Procs :
                (pc'[p] # pc[p] /\ pc'[p] # "idle" /\ job'[p] = j /\ cargs'[p] = a)
                   => /\ cache'[key(j, b)] = cache[key(j, b)]
                      /\ (outcome'[p] = "returned" /\ ret'[p] # empty(j))
                            => ret'[p] \in FetchResults(j, a)]_vars

\* C9 witness: both tuples are cached, each with a fetch result of its own
\* arguments, and the call on the second has returned its own.
C9_Witness ==
    /\ pc["c1"] = "done"
    /\ cargs["c1"] = Barry
    /\ outcome["c1"] = "returned"
    /\ ret["c1"] \in FetchResults("Job", Barry)
    /\ cache[key("Job", Alan)] # None
    /\ cache[key("Job", Alan)][2] \in FetchResults("Job", Alan)
    /\ cache[key("Job", Barry)] # None
    /\ cache[key("Job", Barry)][2] = ret["c1"]

\* C10 (as claimed): a value a get returns from the cache was fetched by the
\* get's own job type, never written by the refresh of another job type.
C10_JobIdentityNamespacesKeys ==
    \A p \in Callers :
        (pc[p] = "done" /\ outcome[p] = "returned" /\ result[p] # None)
           => \E v \in Versions : ret[p] = fetch(job[p], cargs[p], v)

\* C11: a get that finds a fresh entry returns its payload in that one step
\* and the step changes nothing but the caller's own frame: the cache, the
\* dispatcher and the other processes are as before, and the call has made
\* no fetch, no write and no enqueue.
C11_FreshHitNoSideEffects ==
    [][\A p \in Callers, j \in Jobs, a \in ArgsSet :
         (Begins(p, j, a) /\ cache[key(j, a)] # None /\ ~(cache[key(j, a)][1] < now))
            => /\ pc'[p] = "done"
               /\ outcome'[p] = "returned"
               /\ ret'[p] = cache[key(j, a)][2]
               /\ fetches'[p] = 0 /\ writes'[p] = 0 /\ enq'[p] = 0
               /\ cache' = cache
               /\ pending' = pending
               /\ \A q \in Procs \ {p} :
                    pc'[q] = pc[q] /\ ret'[q] = ret[q] /\ fetched'[q] = fetched[q]]_vars

\* C11 witness: a fresh hit has returned while nothing is queued and the
\* worker is idle.
C11_Witness ==
    /\ pc["c1"] = "done"
    /\ path["c1"] = "fresh"
    /\ outcome["c1"] = "returned"
    /\ enq["c1"] = 0
    /\ \A t \in Tasks : pending[t] = 0
    /\ pc["w1"] = "idle"
    /\ cache[key(job["c1"], cargs["c1"])] = result["c1"]

C13_OnlyRefreshWrites ==
    [][/\ cache' # cache
          => \E p \in Procs :
                /\ Stores(p)
                /\ fetches[p] = 1
                /\ outcome[p] = "none"
                /\ cache' = [cache EXCEPT ![key(job[p], cargs[p])] =
                                <<now + lifetime, fetched[p]>>]
                /\ p \in Callers => (result[p] = None /\ fetch_on_empty(job[p]))
       /\ \A k \in Keys : cache[k] # None => cache'[k] # None]_vars

\* C13 witness: an entry written by the worker's refresh is in the store
\* after a get that only dispatched.
C13_Witness ==
    /\ pc["w1"] = "done"
    /\ outcome["w1"] = "returned"
    /\ writes["w1"] = 1
    /\ cache[key(job["w1"], cargs["w1"])] = <<now + lifetime, fetched["w1"]>>
    /\ pc["c1"] = "done"
    /\ enq["c1"] = 1
    /\ writes["c1"] = 0

\* C14: the expiresAt of every entry is a clock value of a write plus the
\* lifetime: a store sets it to the clock at the store (after fetch has
\* returned) plus the lifetime, and no other step, of get in particular,
\* changes the expiresAt of an entry.
C14_ExpiresAtSetByWriter ==
    [][/\ \A k \in Keys :
            cache[k] # None => (cache[k][1] - lifetime >= 0 /\ cache[k][1] - lifetime <= now)
       /\ \A p \in Procs :
            Stores(p) => cache'[key(job[p], cargs[p])][1] = now + lifetime
       /\ \A k \in Keys :
            (cache[k] # None /\ cache'[k][1] # cache[k][1])
               => \E p \in Procs : Stores(p) /\ key(job[p], cargs[p]) = k]_vars

\* C14 witness: a get at t = 601 has read an entry whose expiresAt is still
\* the one its writer set at t = 1, and has left it in the store.
C14_Witness ==
    /\ pc["c1"] = "done"
    /\ calls = 2
    /\ result["c1"] # None
    /\ result["c1"][1] = 1 + lifetime
    /\ cache[key(job["c1"], cargs["c1"])] = result["c1"]
    /\ now = 1 + lifetime

\* C15: the one task an accepted dispatch adds is made of the class path of
\* the caller's job and of the positional and named arguments of its get, as
\* they were passed; the worker that takes a task runs refresh for the job
\* type and the arguments the task names, and its store writes under the
\* key the get that enqueued the task had read.
C15_TaskCarriesIdentityAndArgs ==
    [][/\ \A p \in Callers, j \in Jobs, a \in ArgsSet :
            (Dispatches(p) /\ job[p] = j /\ cargs[p] = a /\ outcome'[p] = "returned")
               => \E t \in Tasks :
                     /\ t.class_path = class_path(j)
                     /\ t.args.args = a.args
                     /\ t.args.kwargs = a.kwargs
                     /\ pending' = [pending EXCEPT ![t] = @ + 1]
                     /\ key(JobOf(t.class_path), t.args) = key(j, a)
       /\ \A w \in Workers, t \in Tasks :
            (pc[w] = "idle" /\ pc'[w] # "idle" /\ pending'[t] < pending[t])
               => (class_path(job'[w]) = t.class_path /\ cargs'[w] = t.args)
       /\ \A w \in Workers :
            Stores(w)
               => cache' = [cache EXCEPT ![key(job[w], cargs[w])] =
                               <<now + lifetime, fetched[w]>>]]_vars

\* C15 witness: a stale get with a positional and a named argument enqueued
\* its task, and the worker that ran it has stored under the key of that get.
C15_Witness ==
    /\ pc["c1"] = "done"
    /\ cargs["c1"] = AlanUpper
    /\ result["c1"] # None
    /\ enq["c1"] = 1
    /\ pc["w1"] = "done"
    /\ job["w1"] = job["c1"]
    /\ cargs["w1"] = AlanUpper
    /\ writes["w1"] = 1
    /\ cache[key(job["c1"], cargs["c1"])] = <<now + lifetime, fetched["w1"]>>
    /\ cache[key(job["c1"], cargs["c1"])] # result["c1"]

\* C16: nothing is de-duplicated.  A get that finds a stale entry, or no
\* entry with fetch_on_empty off, goes to its own dispatch whatever is queued
\* and whatever the other callers are doing, and each accepted dispatch adds
\* one more copy of the task to those queued; a get that finds no entry with
\* fetch_on_empty on goes to its own inline fetch even while another caller
\* is fetching or storing for that key; queued copies leave the queue only
\* one at a time, when a worker takes one.
C16_NoDeduplication ==
    [][/\ \A p \in Callers, j \in Jobs, a \in ArgsSet :
            LET entry == cache[key(j, a)] IN
            /\ (Begins(p, j, a) /\ entry # None /\ entry[1] < now)
                  => pc'[p] = "dispatch"
            /\ (Begins(p, j, a) /\ entry = None /\ ~fetch_on_empty(j))
                  => pc'[p] = "dispatch"
            /\ (Begins(p, j, a) /\ entry = None /\ fetch_on_empty(j))
                  => pc'[p] = "fetch"
            /\ (Dispatches(p) /\ job[p] = j /\ cargs[p] = a /\ outcome'[p] = "returned")
                  => /\ pending'[TaskOf(j, a)] = pending[TaskOf(j, a)] + 1
                     /\ enq'[p] = 1
            /\ (pc[p] = "fetch" /\ pc'[p] # "fetch") => fetches'[p] = 1
       /\ \A t \in Tasks :
            pending'[t] < pending[t]
               => /\ pending'[t] = pending[t] - 1
                  /\ \E w \in Workers : pc[w] = "idle" /\ pc'[w] # "idle"]_vars

\* C16 witness: two callers saw the same key without a usable entry, each
\* enqueued, and two copies of the one task are queued.
C16_Witness ==
    /\ pc["c1"] = "done" /\ pc["c2"] = "done"
    /\ job["c1"] = job["c2"] /\ cargs["c1"] = cargs["c2"]
    /\ result["c1"] = result["c2"]
    /\ enq["c1"] = 1 /\ enq["c2"] = 1
    /\ pending[TaskOf(job["c1"], cargs["c1"])] = 2

\* The entry under k is there and stale / there and expiring after now.
StaleAt(k) == cache[k] # None /\ cache[k][1] < now
FreshBeyondNow(k) == cache[k] # None /\ cache[k][1] > now

\* C17: a stale entry stays as it is, and stale, through every step that is
\* not the store of a refresh; a get that finds it goes to the dispatch and
\* then returns its payload; the store of a refresh puts in its place the
\* payload that refresh fetched with an expiresAt later than the time of the
\* store; and, the worker being fair and its fetches succeeding, a stale
\* entry with a task queued for it is eventually replaced so.
C17_StaleUntilRefreshLands ==
    /\ [][\A j \in Jobs, a \in ArgsSet :
            LET k == key(j, a) IN
            StaleAt(k)
               => /\ cache'[k] # cache[k]
                        => \E q \in Procs :
                              /\ Stores(q)
                              /\ key(job[q], cargs[q]) = k
                              /\ cache'[k] = <<now + lifetime, fetched[q]>>
                              /\ cache'[k][1] > now'
                  /\ cache'[k] = cache[k] => cache'[k][1] < now'
                  /\ \A p \in Callers :
                        /\ Begins(p, j, a) => (pc'[p] = "dispatch" /\ result'[p] = cache[k])
                        /\ (Dispatches(p) /\ job[p] = j /\ cargs[p] = a
                               /\ result[p] = cache[k] /\ outcome'[p] = "returned")
                              => ret'[p] = cache[k][2]]_vars
    /\ \A j \in Jobs, a \in ArgsSet :
          (StaleAt(key(j, a)) /\ pending[TaskOf(j, a)] > 0) ~> FreshBeyondNow(key(j, a))

\* C17 witness: the get that found the entry stale returned the old payload
\* and the worker's refresh has since put a newer payload in its place.
C17_Witness ==
    /\ pc["c1"] = "done"
    /\ path["c1"] = "stale"
    /\ ret["c1"] = result["c1"][2]
    /\ enq["c1"] = 1
    /\ pc["w1"] = "done"
    /\ writes["w1"] = 1
    /\ cache[key(job["c1"], cargs["c1"])] = <<now + lifetime, fetched["w1"]>>
    /\ fetched["w1"] # result["c1"][2]

\* C18: a call on AsyncCacheJob, which supplies no fetch, that has reached
\* fetch (through a get that missed, or through refresh) is over with the
\* unimplemented-fetch error, has stored nothing and returned nothing; no
\* call of that job type is ever at the store, and no entry is ever under
\* its key.
C18_NoFetchRaisesAndWritesNothing ==
    /\ \A p \in Procs :
          job[p] = BaseJob
             => /\ pc[p] # "set"
                /\ fetches[p] >= 1
                      => /\ pc[p] = "done"
                         /\ outcome[p] = "NotImplementedError"
                         /\ fetches[p] = 1
                         /\ writes[p] = 0
                         /\ fetched[p] = None
                         /\ ret[p] = None
    /\ cache[key(BaseJob, NoArgs)] = None

\* C18 witness: a get of AsyncCacheJob missed, went to the inline refresh and
\* ended with the error, the store still without an entry for it.
C18_Witness ==
    /\ pc["c1"] = "done"
    /\ job["c1"] = BaseJob
    /\ path["c1"] = "sync_miss"
    /\ fetches["c1"] = 1
    /\ outcome["c1"] = "NotImplementedError"
    /\ cache[key(BaseJob, NoArgs)] = None

\* C19: when fetch returns None, refresh stores an entry all the same, with
\* payload None, and that entry is not the absence of an entry; a get that
\* finds such an entry while it is fresh is a fresh hit: it returns None in
\* that step, without a fetch and without an enqueue.
C19_NonePayloadIsAHit ==
    [][\A p \in Callers, a \in ArgsSet :
         LET k == key(NoneJob, a)
         IN /\ (Stores(p) /\ job[p] = NoneJob /\ cargs[p] = a)
                  => /\ fetched[p] = None
                     /\ cache'[k] = <<now + lifetime, None>>
                     /\ cache'[k] # None
            /\ (Begins(p, NoneJob, a) /\ cache[k] # None /\ cache[k][2] = None
                  /\ ~(cache[k][1] < now))
                  => /\ pc'[p] = "done"
                     /\ outcome'[p] = "returned"
                     /\ ret'[p] = None
                     /\ fetches'[p] = 0
                     /\ enq'[p] = 0
                     /\ pending' = pending
                     /\ cache' = cache]_vars

\* C19 witness: the second get found the entry with payload None, fresh, and
\* returned None without a fetch.
C19_Witness ==
    /\ pc["c1"] = "done"
    /\ job["c1"] = NoneJob
    /\ calls = 2
    /\ result["c1"] # None
    /\ result["c1"][2] = None
    /\ ~(result["c1"][1] < now)
    /\ outcome["c1"] = "returned"
    /\ ret["c1"] = None
    /\ fetches["c1"] = 0
    /\ enq["c1"] = 0

\* C20: with one job type, the payload of every entry under key(args) is a
\* value a successful fetch of that job type returns for those arguments,
\* and a get that has returned has returned such a value or empty(): a miss
\* with fetch_on_empty off gives empty(), a hit gives the payload it read.
C20_PayloadsAreFetchResults ==
    /\ \A a \in ArgsSet :
          cache[key(TheJob, a)] # None
             => cache[key(TheJob, a)][2] \in FetchResults(TheJob, a)
    /\ \A p \in Callers :
          (pc[p] = "done" /\ outcome[p] = "returned")
             => /\ ret[p] \in FetchResults(job[p], cargs[p]) \cup {empty(job[p])}
                /\ path[p] \in {"stale", "fresh"} => ret[p] \in FetchResults(job[p], cargs[p])
                /\ path[p] = "async_miss" => ret[p] = empty(job[p])
    /\ \A w \in Workers :
          pc[w] = "set" => fetched[w] \in FetchResults(job[w], cargs[w])

\* C20 witness: the worker has written an entry from a task that is still
\* queued, after a caller returned the older payload from a hit.
C20_Witness ==
    /\ cache[key(TheJob, AlanUpper)] = <<now + lifetime, fetched["w1"]>>
    /\ pc["w1"] = "done"
    /\ writes["w1"] = 1
    /\ pending[TaskOf(job["w1"], cargs["w1"])] > 0
    /\ \E p \in Callers :
          /\ pc[p] = "done"
          /\ path[p] \in {"stale", "fresh"}
          /\ cargs[p] = AlanUpper
          /\ ret[p] \in FetchResults(job[p], cargs[p])

====
